---- MODULE Spec2Model ----
(***************************************************************************)
(* A model of src/model.py: the feed-forward network wrapper Net, its      *)
(* configuration resolver default_model and its activation selector       *)
(* select_activation.                                                      *)
(*                                                                         *)
(* Tensors hold integers.  A tensor is a record                            *)
(*   [ref, val, rg, dev, shape]                                            *)
(* where ref names the parameter storage the tensor is a view of (NoRef    *)
(* when it owns storage of its own, whose contents are val), rg is         *)
(* requires_grad (the tensor is attached to the autograd graph) and dev    *)
(* the device it lives on.  The framework's random generator is a cyclic   *)
(* stream of small signed integers, its state the variable rng.           *)
(***************************************************************************)
EXTENDS Integers, Sequences, FiniteSets, TLC

\* ------------------------------------------------------------------ bounds
MaxIn     == 2   \* largest input width passed to the constructor
MaxWidth  == 2   \* largest hidden width passed to the constructor
MaxOut    == 2   \* largest output width passed to the constructor
MaxDepth  == 2   \* longest hidden_size sequence tried
MaxBatch  == 2   \* largest batch tried
MaxMut    == 2   \* how many mutating calls (initialize, backward, step) a run makes
RngPeriod == 5   \* period of the generator's stream

InSizes   == {1, MaxIn}
HidWidths == {1, MaxWidth}
OutSizes  == {1, MaxOut}
Devices   == {"cpu", "cuda"}

\* ------------------------------------------------------- Python values
\* A Python value that may reach a size parameter: None, an int, a list of
\* ints or a tuple of ints.
PyNone      == [t |-> "None",  v |-> <<>>]
PyInt(n)    == [t |-> "int",   v |-> <<n>>]
PyList(s)   == [t |-> "list",  v |-> s]
PyTuple(s)  == [t |-> "tuple", v |-> s]

RECURSIVE SeqsUpTo(_, _)
SeqsUpTo(S, n) ==
    IF n = 0 THEN {<<>>}
    ELSE LET shorter == SeqsUpTo(S, n - 1)
         IN  shorter \cup {Append(s, e) : s \in {q \in shorter : Len(q) = n - 1}, e \in S}

\* The members of the activation enumeration ActivType, None, and a value
\* that is no member of the enumeration.
ActivKinds  == {"GELU", "RELU", "SIGMOID", "ID"}
ActivValues == ActivKinds \cup {"None", "TANH"}

\* The Container cfg: absent (None) or an object with the four attributes.
NoCfg == [present |-> FALSE, input_size |-> PyNone, hidden_size |-> PyNone,
          output_size |-> PyNone, activ_type |-> "None"]

\* The configurations tried: none, and two of dimensions 3 -> 4 -> 1 and
\* 3 -> [4, 4] -> 1.
Cfgs ==
    {NoCfg,
     [present |-> TRUE, input_size |-> PyInt(3), hidden_size |-> PyInt(4),
      output_size |-> PyInt(1), activ_type |-> "RELU"],
     [present |-> TRUE, input_size |-> PyInt(3), hidden_size |-> PyList(<<4, 4>>),
      output_size |-> PyInt(1), activ_type |-> "None"]}

\* The constructor's arguments.
InputSizeArgs  == {PyNone} \cup {PyInt(n) : n \in InSizes}
HiddenSizeArgs ==
    {PyNone} \cup {PyInt(n) : n \in HidWidths}
    \cup {PyList(s)  : s \in SeqsUpTo(HidWidths, MaxDepth)}
    \cup {PyTuple(s) : s \in SeqsUpTo(HidWidths, MaxDepth) \ {<<>>}}
OutputSizeArgs == {PyNone} \cup {PyInt(n) : n \in OutSizes}

NoArgs == [input_size |-> PyNone, hidden_size |-> PyNone, output_size |-> PyNone,
           activation |-> "None"]

\* ------------------------------------------------------------ generator
\* The k-th number of the generator's stream: a small signed integer.
RngValue(k) == (k % RngPeriod) - (RngPeriod \div 2)

\* n numbers drawn with the generator in state s; the state after is
\* (s + n) % RngPeriod.
Draw(n, s) == [j \in 1..n |-> RngValue(s + j)]
Advance(n, s) == (s + n) % RngPeriod

\* ---------------------------------------------------------- default_model
\* Mutant: the configuration takes precedence over the explicit arguments.
DefaultModelCfgFirst(input_size, hidden_size, output_size, activation, c) ==
    IF c.present
    THEN [ins |-> c.input_size, his |-> c.hidden_size, ous |-> c.output_size,
          acv |-> c.activ_type, cfg |-> c, err |-> "none"]
    ELSE [ins |-> input_size, his |-> hidden_size, ous |-> output_size,
          acv |-> activation, cfg |-> c, err |-> "none"]

\* Mutant: the `if cfg is not None` guard is missing, so an unset argument
\* reads an attribute of None.
DefaultModelNoGuard(input_size, hidden_size, output_size, activation, c) ==
    [ins |-> IF input_size.t = "None" THEN c.input_size ELSE input_size,
     his |-> IF hidden_size.t = "None" THEN c.hidden_size ELSE hidden_size,
     ous |-> IF output_size.t = "None" THEN c.output_size ELSE output_size,
     acv |-> IF activation = "None" THEN c.activ_type ELSE activation,
     cfg |-> c,
     err |-> IF ~c.present /\ (input_size.t = "None" \/ hidden_size.t = "None"
                               \/ output_size.t = "None" \/ activation = "None")
             THEN "AttributeError" ELSE "none"]

\* default_model: the four values returned, the cfg object as the call leaves
\* it, and the exception raised (none: cfg's attributes are read only under
\* `if cfg is not None`).
DefaultModel(input_size, hidden_size, output_size, activation, c) ==
    IF c.present
    THEN [ins |-> IF input_size.t = "None" THEN c.input_size ELSE input_size,
          his |-> IF hidden_size.t = "None" THEN c.hidden_size ELSE hidden_size,
          ous |-> IF output_size.t = "None" THEN c.output_size ELSE output_size,
          acv |-> IF activation = "None" THEN c.activ_type ELSE activation,
          cfg |-> c, err |-> "none"]
    ELSE [ins |-> input_size, his |-> hidden_size, ous |-> output_size,
          acv |-> activation, cfg |-> c, err |-> "none"]

\* ------------------------------------------------------ select_activation
\* Mutant: the fallback branch returns ReLU.
SelectActivationDefaultRelu(activation) ==
    IF activation = "GELU" THEN [fn |-> "GELU", notice |-> FALSE]
    ELSE IF activation = "RELU" THEN [fn |-> "ReLU", notice |-> FALSE]
    ELSE IF activation = "SIGMOID" THEN [fn |-> "Sigmoid", notice |-> FALSE]
    ELSE IF activation = "ID" THEN [fn |-> "Identity", notice |-> FALSE]
    ELSE [fn |-> "ReLU", notice |-> TRUE]

\* select_activation: the transform chosen and whether the notice is printed.
SelectActivation(activation) ==
    IF activation = "GELU" THEN [fn |-> "GELU", notice |-> FALSE]
    ELSE IF activation = "RELU" THEN [fn |-> "ReLU", notice |-> FALSE]
    ELSE IF activation = "SIGMOID" THEN [fn |-> "Sigmoid", notice |-> FALSE]
    ELSE IF activation = "ID" THEN [fn |-> "Identity", notice |-> FALSE]
    ELSE [fn |-> "Identity", notice |-> TRUE]

\* ------------------------------------------------------------- nn.Linear
NoGrad == [none |-> TRUE, val |-> <<>>]

\* nn.Linear(in_features, out_features) with the generator in state s: a type
\* error unless both are ints; else a layer whose weight (out x in, row major)
\* and then bias are drawn from the generator, with empty gradient slots.
Linear(inF, outF, s) ==
    IF inF.t # "int" \/ outF.t # "int"
    THEN [ok |-> FALSE, err |-> "TypeError", rng |-> s,
          layer |-> [inF |-> 0, outF |-> 0, w |-> <<>>, b |-> <<>>,
                     gw |-> NoGrad, gb |-> NoGrad, wver |-> 0, bver |-> 0]]
    ELSE LET i == inF.v[1]
             o == outF.v[1]
         IN  [ok |-> TRUE, err |-> "none", rng |-> Advance(o * i + o, s),
              layer |-> [inF |-> i, outF |-> o,
                         w |-> Draw(o * i, s), b |-> Draw(o, Advance(o * i, s)),
                         gw |-> NoGrad, gb |-> NoGrad, wver |-> 0, bver |-> 0]]

\* Mutant: the isinstance test is missing and every hidden_size is wrapped.
NormalizeWrapAll(his) == <<his>>

\* `if not isinstance(his, list): his = [his]`
Normalize(his) ==
    IF his.t = "list" THEN [k \in 1..Len(his.v) |-> PyInt(his.v[k])] ELSE <<his>>

\* The layers built from position k of the chain ins, his[0], ..., his[-1], ous
\* on, after the layers acc: fc_in, the fc_hid in order, fc_out; the first
\* failure ends construction.
RECURSIVE BuildFrom(_, _, _, _)
BuildFrom(chain, k, acc, s) ==
    IF k >= Len(chain) THEN [ok |-> TRUE, err |-> "none", layers |-> acc, rng |-> s]
    ELSE LET l == Linear(chain[k], chain[k + 1], s)
         IN  IF l.ok THEN BuildFrom(chain, k + 1, Append(acc, l.layer), l.rng)
             ELSE [ok |-> FALSE, err |-> l.err, layers |-> <<>>, rng |-> l.rng]

\* Net.__init__ after default_model returned r (an exception of default_model
\* ends construction): his[0] of an empty list is an index error;
\* select_activation runs only when every layer was built.
BuildNet(r, s) ==
    LET hs == Normalize(r.his)
    IN  IF r.err # "none"
        THEN [ok |-> FALSE, err |-> r.err, layers |-> <<>>, rng |-> s,
              act |-> "none", notice |-> FALSE]
        ELSE IF Len(hs) = 0
        THEN [ok |-> FALSE, err |-> "IndexError", layers |-> <<>>, rng |-> s,
              act |-> "none", notice |-> FALSE]
        ELSE LET b == BuildFrom(<<r.ins>> \o hs \o <<r.ous>>, 1, <<>>, s)
                 a == SelectActivation(r.acv)
             IN  IF b.ok
                 THEN [ok |-> TRUE, err |-> "none", layers |-> b.layers, rng |-> b.rng,
                       act |-> a.fn, notice |-> a.notice]
                 ELSE [ok |-> FALSE, err |-> b.err, layers |-> <<>>, rng |-> b.rng,
                       act |-> "none", notice |-> FALSE]

\* --------------------------------------------------------------- tensors
NoRef == [layer |-> 0, slot |-> "none"]
NoTensor == [ref |-> NoRef, val |-> <<>>, rg |-> FALSE, dev |-> "cpu", shape |-> <<>>]

RECURSIVE Prod(_)
Prod(s) == IF Len(s) = 0 THEN 1 ELSE Head(s) * Prod(Tail(s))

\* What the storage named by ref holds in the layers ls.
Fetch(ls, ref) ==
    CASE ref.slot = "w"  -> ls[ref.layer].w
      [] ref.slot = "b"  -> ls[ref.layer].b
      [] ref.slot = "gw" -> ls[ref.layer].gw.val
      [] ref.slot = "gb" -> ls[ref.layer].gb.val
      [] OTHER -> <<>>

\* The numbers a tensor shows now: its own storage, or the parameter storage
\* it is a view of.
Content(ls, t) == IF t.ref = NoRef THEN t.val ELSE Fetch(ls, t.ref)

\* layer.weight, layer.bias: the parameter itself (requires_grad), and
\* layer.weight._grad, layer.bias._grad (a plain tensor) on device d.
Param(ls, i, slot, d) ==
    [ref |-> [layer |-> i, slot |-> slot], val |-> <<>>,
     rg |-> slot \in {"w", "b"}, dev |-> d,
     shape |-> IF slot \in {"w", "gw"} THEN <<ls[i].outF, ls[i].inF>> ELSE <<ls[i].outF>>]

\* Mutant: the .cpu() call is missing.
CpuOmitted(ls, t) == t

\* Tensor.cpu(): the tensor itself when it is on the host, else a copy on the
\* host that stays in the autograd graph.
Cpu(ls, t) ==
    IF t.dev = "cpu" THEN t
    ELSE [ref |-> NoRef, val |-> Content(ls, t), rg |-> t.rg, dev |-> "cpu", shape |-> t.shape]

\* Tensor.view(-1): the same storage, one dimension.
ViewFlat(t) == [t EXCEPT !.shape = <<Prod(t.shape)>>]

\* Tensor.clone(): new storage with the same numbers; differentiable, so the
\* clone of a tensor that requires grad requires grad.
Clone(ls, t) == [ref |-> NoRef, val |-> Content(ls, t), rg |-> t.rg, dev |-> t.dev, shape |-> t.shape]

\* torch.cat((a, b), 0) of two vectors: new storage.
Cat(ls, a, b) ==
    [ref |-> NoRef, val |-> Content(ls, a) \o Content(ls, b), rg |-> a.rg \/ b.rg,
     dev |-> a.dev, shape |-> <<a.shape[1] + b.shape[1]>>]

\* `<param>.cpu().view(-1).clone()`
FlatCopy(ls, i, slot, d) == Clone(ls, ViewFlat(Cpu(ls, Param(ls, i, slot, d))))

Returned(t) == [kind |-> "tensor", err |-> "none", t |-> t]
Raised(e)   == [kind |-> "error", err |-> e, t |-> NoTensor]
NoRet       == [kind |-> "none", err |-> "none", t |-> NoTensor]

\* ----------------------------------------------------------- get_weights
\* The fc_hid loop of get_weights from layer i on (fc_hid[k] is layer k + 2;
\* the last layer is fc_out).
RECURSIVE WeightsLoop(_, _, _, _)
WeightsLoop(ls, d, i, w) ==
    IF i >= Len(ls) THEN w
    ELSE WeightsLoop(ls, d, i + 1, Cat(ls, w, FlatCopy(ls, i, "w", d)))

\* Mutant: the fc_hid loop is missing.
GetWeightsNoHidden(ls, d) ==
    Returned(Cat(ls, FlatCopy(ls, 1, "w", d), FlatCopy(ls, Len(ls), "w", d)))

GetWeights(ls, d) ==
    Returned(Cat(ls, WeightsLoop(ls, d, 2, FlatCopy(ls, 1, "w", d)),
                 FlatCopy(ls, Len(ls), "w", d)))

\* ------------------------------------------------------------ get_biases
RECURSIVE BiasesLoop(_, _, _, _)
BiasesLoop(ls, d, i, b) ==
    IF i >= Len(ls) THEN b
    ELSE BiasesLoop(ls, d, i + 1, Cat(ls, b, FlatCopy(ls, i, "b", d)))

\* Mutant: fc_out's bias is left out.
GetBiasesNoOut(ls, d) == Returned(BiasesLoop(ls, d, 2, FlatCopy(ls, 1, "b", d)))

GetBiases(ls, d) ==
    Returned(Cat(ls, BiasesLoop(ls, d, 2, FlatCopy(ls, 1, "b", d)),
                 FlatCopy(ls, Len(ls), "b", d)))

\* ---------------------------------------------------------------- get_wb
RECURSIVE WbLoop(_, _, _, _)
WbLoop(ls, d, i, wb) ==
    IF i >= Len(ls) THEN wb
    ELSE WbLoop(ls, d, i + 1,
                Cat(ls, wb, Cat(ls, FlatCopy(ls, i, "w", d), FlatCopy(ls, i, "b", d))))

\* Mutant: all weights first, then all biases.
GetWbGrouped(ls, d) ==
    Returned(Cat(ls, Cat(ls, WeightsLoop(ls, d, 2, FlatCopy(ls, 1, "w", d)),
                         FlatCopy(ls, Len(ls), "w", d)),
                 Cat(ls, BiasesLoop(ls, d, 2, FlatCopy(ls, 1, "b", d)),
                     FlatCopy(ls, Len(ls), "b", d))))

GetWb(ls, d) ==
    Returned(Cat(ls, WbLoop(ls, d, 2, Cat(ls, FlatCopy(ls, 1, "w", d), FlatCopy(ls, 1, "b", d))),
                 Cat(ls, FlatCopy(ls, Len(ls), "w", d), FlatCopy(ls, Len(ls), "b", d))))

\* ------------------------------------------------------------- get_grads
\* The gradient slots in the order get_grads reads them.
GradSlots(ls) ==
    [k \in 1..(2 * Len(ls)) |->
        [layer |-> (k + 1) \div 2, slot |-> IF k % 2 = 1 THEN "gw" ELSE "gb"]]

\* `<param>._grad.cpu()` on an empty slot is an attribute access on None.
GradIsNone(ls, ref) ==
    IF ref.slot = "gw" THEN ls[ref.layer].gw.none ELSE ls[ref.layer].gb.none

RECURSIVE GradsLoop(_, _, _, _)
GradsLoop(ls, d, i, g) ==
    IF i >= Len(ls) THEN g
    ELSE GradsLoop(ls, d, i + 1,
                   Cat(ls, g, Cat(ls, FlatCopy(ls, i, "gw", d), FlatCopy(ls, i, "gb", d))))

\* Mutant: an empty gradient slot is read as an empty vector.
GetGradsUnchecked(ls, d) ==
    Returned(Cat(ls, GradsLoop(ls, d, 2, Cat(ls, FlatCopy(ls, 1, "gw", d), FlatCopy(ls, 1, "gb", d))),
                 Cat(ls, FlatCopy(ls, Len(ls), "gw", d), FlatCopy(ls, Len(ls), "gb", d))))

GetGrads(ls, d) ==
    IF \E k \in 1..(2 * Len(ls)) : GradIsNone(ls, GradSlots(ls)[k])
    THEN Raised("AttributeError")
    ELSE Returned(Cat(ls, GradsLoop(ls, d, 2, Cat(ls, FlatCopy(ls, 1, "gw", d), FlatCopy(ls, 1, "gb", d))),
                      Cat(ls, FlatCopy(ls, Len(ls), "gw", d), FlatCopy(ls, Len(ls), "gb", d))))

\* --------------------------------------------------------------- forward
\* The activation transforms on integers: ReLU and Identity exactly, GELU and
\* Sigmoid rounded to the nearest integer (GELU(v) rounds to v for v >= 1 and
\* to 0 for v <= 0; Sigmoid(v) rounds to 1 for v >= 1 and to 0 for v <= 0).
Activate(fn, v) ==
    CASE fn = "Identity" -> v
      [] fn = "ReLU"     -> IF v > 0 THEN v ELSE 0
      [] fn = "GELU"     -> IF v > 0 THEN v ELSE 0
      [] fn = "Sigmoid"  -> IF v > 0 THEN 1 ELSE 0
      [] OTHER -> v

RECURSIVE Dot(_, _, _, _)
\* sum over j in 1..n of w[off + j] * r[j]
Dot(w, off, r, n) == IF n = 0 THEN 0 ELSE w[off + n] * r[n] + Dot(w, off, r, n - 1)

\* layer(r) for one sample r: W r + b.
Affine(l, r) == [o \in 1..l.outF |-> Dot(l.w, (o - 1) * l.inF, r, l.inF) + l.b[o]]

\* forward from layer i on the rows (one per sample): a layer whose in_features
\* is not the rows' width is a shape mismatch; the activation follows every
\* layer but the last.
RECURSIVE ForwardFrom(_, _, _, _)
ForwardFrom(ls, fn, i, rows) ==
    IF Len(rows[1]) # ls[i].inF THEN [ok |-> FALSE, rows |-> <<>>]
    ELSE LET y == [k \in 1..Len(rows) |-> Affine(ls[i], rows[k])]
         IN  IF i = Len(ls) THEN [ok |-> TRUE, rows |-> y]
             ELSE ForwardFrom(ls, fn, i + 1,
                              [k \in 1..Len(y) |-> [o \in 1..Len(y[k]) |-> Activate(fn, y[k][o])]])

RECURSIVE Flatten(_)
Flatten(rows) == IF Len(rows) = 0 THEN <<>> ELSE Head(rows) \o Flatten(Tail(rows))

\* Net.forward(x): x.view(x.shape[0], -1) cannot infer -1 for a tensor of no
\* elements; a layer applied to a tensor on another device fails.
Forward(ls, fn, d, x) ==
    LET batch == x.shape[1]
        numel == Prod(x.shape)
    IN  IF numel = 0 THEN Raised("RuntimeError")
        ELSE IF x.dev # d THEN Raised("RuntimeError")
        ELSE LET f == numel \div batch
                 rows == [k \in 1..batch |-> SubSeq(x.val, (k - 1) * f + 1, k * f)]
                 out == ForwardFrom(ls, fn, 1, rows)
             IN  IF ~out.ok THEN Raised("RuntimeError")
                 ELSE Returned([ref |-> NoRef, val |-> Flatten(out.rows), rg |-> TRUE,
                                dev |-> d, shape |-> <<batch, ls[Len(ls)].outF>>])

\* ------------------------------------------------------------ initialize
\* nn.init.xavier_uniform_(layer.weight): the weight is overwritten in place
\* with numbers drawn from the generator.
XavierUniform(l, s) ==
    [l EXCEPT !.w = Draw(l.outF * l.inF, s), !.wver = @ + 1]

\* initialize from layer i on: fc_in, the fc_hid in order, fc_out.
RECURSIVE InitializeFrom(_, _, _)
InitializeFrom(ls, i, s) ==
    IF i > Len(ls) THEN [layers |-> ls, rng |-> s]
    ELSE InitializeFrom([ls EXCEPT ![i] = XavierUniform(ls[i], s)], i + 1,
                        Advance(ls[i].outF * ls[i].inF, s))

\* Mutant: fc_out is not initialized.
InitializeSkipOut(ls, s) ==
    LET n == InitializeFrom(SubSeq(ls, 1, Len(ls) - 1), 1, s)
    IN  [layers |-> Append(n.layers, ls[Len(ls)]), rng |-> n.rng]

InitializeLayers(ls, s) == InitializeFrom(ls, 1, s)

\* ------------------------------------------- backward and optimizer step
\* The framework's backward pass: every parameter's gradient slot is
\* allocated when empty and accumulated into otherwise.  The gradient's
\* numbers are not modelled: each pass adds one to every entry.
Accumulate(g, n) ==
    [none |-> FALSE, val |-> [j \in 1..n |-> IF g.none THEN 1 ELSE g.val[j] + 1]]

BackwardLayers(ls) ==
    [i \in 1..Len(ls) |->
        [ls[i] EXCEPT !.gw = Accumulate(@, ls[i].outF * ls[i].inF),
                      !.gb = Accumulate(@, ls[i].outF)]]

\* The optimizer's update (plain gradient descent, unit rate): every parameter
\* with a gradient is updated in place.
Descend(p, g) == IF g.none THEN p ELSE [j \in 1..Len(p) |-> p[j] - g.val[j]]

StepLayers(ls) ==
    [i \in 1..Len(ls) |->
        [ls[i] EXCEPT !.w = Descend(@, ls[i].gw), !.b = Descend(@, ls[i].gb),
                      !.wver = IF ls[i].gw.none THEN @ ELSE @ + 1,
                      !.bver = IF ls[i].gb.none THEN @ ELSE @ + 1]]

\* ----------------------------------------------------------------- state
VARIABLES
    pc,      \* "new", "called" (the constructor is entered), "ready", "failed"
    cfg,     \* the caller's configuration object
    args,    \* the constructor's arguments while it runs
    res,     \* what default_model returned to the constructor
    layers,  \* fc_in, fc_hid[0..], fc_out
    act,     \* self.act
    notice,  \* select_activation printed its notice
    rng,     \* the state of the framework's generator
    dev,     \* the device parameters are created on
    ret,     \* what the last call returned or raised; the caller keeps it
    snap,    \* the numbers ret held when it was returned
    last,    \* the last call and its argument
    muts,    \* mutating calls made so far
    bwd      \* a backward pass has run

vars == <<pc, cfg, args, res, layers, act, notice, rng, dev, ret, snap, last, muts, bwd>>

NoRes == [ins |-> PyNone, his |-> PyNone, ous |-> PyNone, acv |-> "None"]
CallOf(op) == [op |-> op, x |-> NoTensor]

\* The batches forward is tried on: batch samples of the given shape, on
\* either device, holding a fixed pattern of -1, 0, 1.
SampleShapes == {<<>>, <<MaxIn>>, <<1, MaxIn>>, <<3>>}
XInput(batch, sample, d) ==
    [ref |-> NoRef, val |-> [k \in 1..(batch * Prod(sample)) |-> ((k + 1) % 3) - 1],
     rg |-> FALSE, dev |-> d, shape |-> <<batch>> \o sample]

Init ==
    /\ pc = "new"
    /\ cfg \in Cfgs
    /\ args = NoArgs
    /\ res = NoRes
    /\ layers = <<>>
    /\ act = "none"
    /\ notice = FALSE
    /\ rng = 0
    /\ dev \in Devices
    /\ ret = NoRet
    /\ snap = <<>>
    /\ last = CallOf("none")
    /\ muts = 0
    /\ bwd = FALSE

\* Net(cfg, input_size, hidden_size, output_size, activation) is called.
Call(a) ==
    /\ pc = "new"
    /\ pc' = "called"
    /\ args' = a
    /\ last' = CallOf("call")
    /\ UNCHANGED <<cfg, res, layers, act, notice, rng, dev, ret, snap, muts, bwd>>

\* Net.__init__
Construct ==
    /\ pc = "called"
    /\ LET r == DefaultModel(args.input_size, args.hidden_size, args.output_size,
                             args.activation, cfg)
           n == BuildNet(r, rng)
       IN  /\ pc' = IF n.ok THEN "ready" ELSE "failed"
           /\ cfg' = r.cfg
           /\ res' = [ins |-> r.ins, his |-> r.his, ous |-> r.ous, acv |-> r.acv]
           /\ layers' = n.layers
           /\ act' = n.act
           /\ notice' = n.notice
           /\ rng' = n.rng
           /\ ret' = IF n.ok THEN NoRet ELSE Raised(n.err)
    /\ args' = NoArgs
    /\ last' = CallOf("construct")
    /\ UNCHANGED <<dev, snap, muts, bwd>>

\* Net.forward(x)
DoForward(x) ==
    /\ pc = "ready"
    /\ ret' = Forward(layers, act, dev, x)
    /\ snap' = Content(layers, ret'.t)
    /\ last' = [op |-> "forward", x |-> x]
    /\ UNCHANGED <<pc, cfg, args, res, layers, act, notice, rng, dev, muts, bwd>>

\* Net.initialize()
Initialize ==
    /\ pc = "ready"
    /\ muts < MaxMut
    /\ LET n == InitializeLayers(layers, rng)
       IN  layers' = n.layers /\ rng' = n.rng
    /\ muts' = muts + 1
    /\ last' = CallOf("initialize")
    /\ UNCHANGED <<pc, cfg, args, res, act, notice, dev, ret, snap, bwd>>

\* Net.get_weights(), get_biases(), get_wb(), get_grads()
Extract(op, r) ==
    /\ pc = "ready"
    /\ ret' = r
    /\ snap' = Content(layers, r.t)
    /\ last' = CallOf(op)
    /\ UNCHANGED <<pc, cfg, args, res, layers, act, notice, rng, dev, muts, bwd>>

DoGetWeights == Extract("get_weights", GetWeights(layers, dev))
DoGetBiases  == Extract("get_biases", GetBiases(layers, dev))
DoGetWb      == Extract("get_wb", GetWb(layers, dev))
DoGetGrads   == Extract("get_grads", GetGrads(layers, dev))

\* A backward pass from the output forward has just returned.
Backward ==
    /\ pc = "ready"
    /\ last.op = "forward"
    /\ ret.kind = "tensor"
    /\ muts < MaxMut
    /\ layers' = BackwardLayers(layers)
    /\ bwd' = TRUE
    /\ muts' = muts + 1
    /\ last' = CallOf("backward")
    /\ UNCHANGED <<pc, cfg, args, res, act, notice, rng, dev, ret, snap>>

\* The optimizer's step; with every gradient slot empty it changes nothing.
Step ==
    /\ pc = "ready"
    /\ bwd
    /\ muts < MaxMut
    /\ layers' = StepLayers(layers)
    /\ muts' = muts + 1
    /\ last' = CallOf("step")
    /\ UNCHANGED <<pc, cfg, args, res, act, notice, rng, dev, ret, snap, bwd>>

\* The constructor calls of the construction runs: every combination of the
\* argument values above.
CtorCalls ==
    [input_size : InputSizeArgs, hidden_size : HiddenSizeArgs,
     output_size : OutputSizeArgs, activation : ActivValues]

\* The constructor calls of the lifecycle runs: a scalar hidden_size (no
\* fc_hid layer) or a list of MaxDepth widths, sizes set or left to cfg.
LifeCalls ==
    [input_size : {PyNone, PyInt(1)},
     hidden_size : {PyNone, PyInt(1), PyList([k \in 1..MaxDepth |-> IF k = 1 THEN MaxWidth ELSE 1])},
     output_size : {PyInt(MaxOut)}, activation : {"None", "SIGMOID"}]

\* Construction and the read-only calls, over every constructor call.
NextCtor ==
    \/ \E a \in CtorCalls : Call(a)
    \/ Construct
    \/ \E b \in {0, 1, MaxBatch}, sh \in SampleShapes, d \in Devices : DoForward(XInput(b, sh, d))
    \/ DoGetWeights
    \/ DoGetBiases
    \/ DoGetWb
    \/ DoGetGrads

SpecCtor == Init /\ [][NextCtor]_vars

\* The whole lifecycle of a network, over the lifecycle's constructor calls.
Next ==
    \/ \E a \in LifeCalls : Call(a)
    \/ Construct
    \/ \E b \in {0, 1, MaxBatch}, sh \in SampleShapes, d \in Devices : DoForward(XInput(b, sh, d))
    \/ Initialize
    \/ DoGetWeights
    \/ DoGetBiases
    \/ DoGetWb
    \/ DoGetGrads
    \/ Backward
    \/ Step

Spec == Init /\ [][Next]_vars

\* ======================================================= properties
Constructed == pc \in {"ready", "failed"}
Ok(r) == r.kind = "tensor"

\* The resolved sizes are ints and hidden_size is an int or a non-empty
\* sequence of one of the given kinds (every width tried is positive).
ValidSizes(r, kinds) ==
    /\ r.ins.t = "int"
    /\ r.ous.t = "int"
    /\ r.his.t = "int" \/ (r.his.t \in kinds /\ Len(r.his.v) >= 1)

\* The chain of widths n, h1, ..., hk, o of the resolved sizes.
Chain(r) == r.ins.v \o r.his.v \o r.ous.v

RECURSIVE SumTo(_, _)
\* f[1] + ... + f[n]
SumTo(f, n) == IF n = 0 THEN 0 ELSE f[n] + SumTo(f, n - 1)

WSizes(c) == [i \in 1..(Len(c) - 1) |-> c[i] * c[i + 1]]
BSizes(c) == [i \in 1..(Len(c) - 1) |-> c[i + 1]]
WbSizes(c) == [i \in 1..(Len(c) - 1) |-> c[i] * c[i + 1] + c[i + 1]]

\* v[off + 1 .. off + n]
Segment(v, off, n) == SubSeq(v, off + 1, off + n)

IsExample == res.ins = PyInt(3) /\ res.his = PyList(<<4, 4>>) /\ res.ous = PyInt(1)

\* x is a non-empty batch on the parameters' device whose samples flatten to
\* input_size features.
FitsInput(x) ==
    /\ x.shape[1] >= 1
    /\ x.dev = dev
    /\ Prod(Tail(x.shape)) = res.ins.v[1]

ForwardShapeOk ==
    (pc = "ready" /\ last.op = "forward" /\ FitsInput(last.x)) =>
        /\ Ok(ret)
        /\ ret.t.shape = <<last.x.shape[1], res.ous.v[1]>>
        /\ Len(ret.t.val) = last.x.shape[1] * res.ous.v[1]

\* C1 as stated: whenever the sizes are valid, hidden_size being a positive
\* integer or any non-empty sequence (list or tuple) of positive integers,
\* construction succeeds and forward on a fitting batch returns a tensor of
\* shape (batch, output_size).
C1_AnySequence ==
    /\ (Constructed /\ ValidSizes(res, {"list", "tuple"})) => pc = "ready"
    /\ ForwardShapeOk

\* C1, amended: the same with hidden_size a positive integer or a non-empty
\* list; a tuple is wrapped whole as one width and construction fails with a
\* type error.
C1_ListOnly ==
    /\ (Constructed /\ ValidSizes(res, {"list"})) => pc = "ready"
    /\ (Constructed /\ res.ins.t = "int" /\ res.ous.t = "int" /\ res.his.t = "tuple") =>
           (pc = "failed" /\ ret = Raised("TypeError"))
    /\ ForwardShapeOk

C1_Witness ==
    /\ pc = "ready"
    /\ res.his.t = "list" /\ Len(res.his.v) = MaxDepth
    /\ last.op = "forward"
    /\ last.x.shape = <<MaxBatch, 1, MaxIn>>
    /\ FitsInput(last.x)
    /\ Ok(ret)

\* C2: get_weights returns a vector of length n*h1 + sum of h_i*h_(i+1) +
\* hk*o holding the layers' weights in construction order; for 3 -> [4, 4]
\* -> 1 the length is 32.
C2_WeightsLength ==
    (pc = "ready" /\ last.op = "get_weights") =>
        LET c == Chain(res)
            k == Len(c) - 1
        IN  /\ Ok(ret)
            /\ Len(ret.t.val) = SumTo(WSizes(c), k)
            /\ ret.t.shape = <<SumTo(WSizes(c), k)>>
            /\ Len(layers) = k
            /\ \A i \in 1..k :
                  Segment(ret.t.val, SumTo(WSizes(c), i - 1), WSizes(c)[i]) = layers[i].w
            /\ IsExample => Len(ret.t.val) = 32

C2_Witness ==
    /\ pc = "ready" /\ last.op = "get_weights" /\ IsExample
    /\ Ok(ret) /\ Len(ret.t.val) = 32

\* C3: get_biases returns a vector whose length is the sum of the widths of
\* the hidden layers fc_hid (h2..hk) and of the output layer (o), plus the
\* first hidden width h1 (the input layer's); for 3 -> [4, 4] -> 1 it is 9.
C3_BiasesLength ==
    (pc = "ready" /\ last.op = "get_biases") =>
        LET h == res.his.v
            k == Len(h)
        IN  /\ Ok(ret)
            /\ Len(layers) = k + 1
            /\ Len(ret.t.val) =
                  SumTo([i \in 1..(k - 1) |-> layers[i + 1].outF], k - 1)
                  + layers[k + 1].outF + h[1]
            /\ Len(ret.t.val) = SumTo(Tail(h), k - 1) + res.ous.v[1] + h[1]
            /\ IsExample => Len(ret.t.val) = 9

C3_Witness ==
    /\ pc = "ready" /\ last.op = "get_biases" /\ IsExample
    /\ Ok(ret) /\ Len(ret.t.val) = 9

\* C4: get_wb returns a vector as long as get_weights' and get_biases'
\* together, holding per layer, in construction order, the layer's flattened
\* weight immediately followed by its bias.
C4_WbInterleaved ==
    (pc = "ready" /\ last.op = "get_wb") =>
        LET c == Chain(res)
            k == Len(c) - 1
        IN  /\ Ok(ret)
            /\ Len(ret.t.val) = Len(GetWeights(layers, dev).t.val) + Len(GetBiases(layers, dev).t.val)
            /\ Len(layers) = k
            /\ \A i \in 1..k :
                  /\ Segment(ret.t.val, SumTo(WbSizes(c), i - 1), WSizes(c)[i]) = layers[i].w
                  /\ Segment(ret.t.val, SumTo(WbSizes(c), i - 1) + WSizes(c)[i], BSizes(c)[i])
                        = layers[i].b

C4_Witness ==
    /\ pc = "ready" /\ last.op = "get_wb" /\ Ok(ret)
    /\ Len(layers) = MaxDepth + 1
    /\ layers[2].inF # layers[2].outF
    /\ Len(ret.t.val) = SumTo(WbSizes(Chain(res)), MaxDepth + 1)

\* C5: with a configuration object present, default_model returns each
\* explicit (non-None) argument unchanged and replaces each unset one by the
\* configuration's field, each of the four independently; no step modifies
\* the configuration object.
C5_Resolution ==
    [][/\ cfg' = cfg
       /\ (pc = "called" /\ pc' # "called" /\ cfg.present) =>
             /\ res'.ins = IF args.input_size = PyNone THEN cfg.input_size ELSE args.input_size
             /\ res'.his = IF args.hidden_size = PyNone THEN cfg.hidden_size ELSE args.hidden_size
             /\ res'.ous = IF args.output_size = PyNone THEN cfg.output_size ELSE args.output_size
             /\ res'.acv = IF args.activation = "None" THEN cfg.activ_type ELSE args.activation
      ]_vars

\* Explicit input_size, output_size and activation beside a hidden_size that
\* only the configuration holds.
C5_Witness ==
    /\ pc = "ready" /\ cfg.present
    /\ res.ins = PyInt(1) /\ res.ins # cfg.input_size
    /\ res.his = PyInt(4) /\ res.his = cfg.hidden_size
    /\ res.ous = PyInt(MaxOut) /\ res.ous # cfg.output_size
    /\ res.acv = "TANH"

\* The linear layers alone, in order, on the rows.
RECURSIVE LinearOnly(_, _, _)
LinearOnly(ls, i, rows) ==
    IF i > Len(ls) THEN rows
    ELSE LinearOnly(ls, i + 1, [k \in 1..Len(rows) |-> Affine(ls[i], rows[k])])

RowsOf(x) ==
    LET f == Prod(Tail(x.shape))
    IN  [k \in 1..x.shape[1] |-> SubSeq(x.val, (k - 1) * f + 1, k * f)]

\* C6: select_activation never fails: GELU, RELU, SIGMOID and ID give the
\* matching transform; any other value, None included, gives the identity and
\* a notice, construction succeeds, and forward(x) is the linear layers alone.
C6_IdentityFallback ==
    /\ pc = "ready" =>
          /\ res.acv = "GELU" => (act = "GELU" /\ ~notice)
          /\ res.acv = "RELU" => (act = "ReLU" /\ ~notice)
          /\ res.acv = "SIGMOID" => (act = "Sigmoid" /\ ~notice)
          /\ res.acv = "ID" => (act = "Identity" /\ ~notice)
          /\ res.acv \notin ActivKinds => (act = "Identity" /\ notice)
    /\ (Constructed /\ ValidSizes(res, {"list"})) => pc = "ready"
    /\ (pc = "ready" /\ res.acv \notin ActivKinds /\ last.op = "forward" /\ Ok(ret)) =>
          ret.t.val = Flatten(LinearOnly(layers, 1, RowsOf(last.x)))

\* An unrecognized value, on a forward pass that ReLU would have changed.
C6_Witness ==
    /\ pc = "ready" /\ res.acv = "TANH" /\ notice /\ act = "Identity"
    /\ Len(layers) = MaxDepth + 1
    /\ last.op = "forward" /\ Ok(ret)
    /\ Forward(layers, "ReLU", dev, last.x) # ret

UnsetSize(r) == r.ins = PyNone \/ r.his = PyNone \/ r.ous = PyNone

\* C8 as stated: with no configuration object and a size argument unset,
\* construction fails with an attribute-access error.
C8_AttributeError ==
    (Constructed /\ ~cfg.present /\ UnsetSize(res)) =>
        (pc = "failed" /\ ret = Raised("AttributeError"))

\* C8, amended: default_model returns the unset values as they are and
\* construction fails in the layer constructor with a type error (hidden_size
\* not being an empty list, whose his[0] is an index error before any layer).
C8_TypeError ==
    (Constructed /\ ~cfg.present /\ UnsetSize(res) /\ res.his # PyList(<<>>)) =>
        (pc = "failed" /\ ret = Raised("TypeError") /\ layers = <<>>)

\* output_size unset: fc_in and the fc_hid are built before fc_out fails.
C8_Witness ==
    /\ pc = "failed" /\ ~cfg.present
    /\ res.ous = PyNone /\ res.ins.t = "int"
    /\ res.his.t = "list" /\ Len(res.his.v) = MaxDepth
    /\ rng # 0
    /\ ret = Raised("TypeError")

\* C7: until a backward pass has run, every layer's weight and bias gradient
\* slot is empty and get_grads fails on the empty slot, returning no vector,
\* whatever forward, initialize and get_* calls came before.
C7_EmptyGradients ==
    (pc = "ready" /\ ~bwd) =>
        /\ \A i \in 1..Len(layers) : layers[i].gw.none /\ layers[i].gb.none
        /\ GetGrads(layers, dev) = Raised("AttributeError")
        /\ last.op = "get_grads" => (ret = Raised("AttributeError") /\ snap = <<>>)

C7_Witness ==
    /\ pc = "ready" /\ ~bwd
    /\ muts = MaxMut
    /\ Len(layers) = MaxDepth + 1
    /\ last.op = "get_grads"
    /\ ret = Raised("AttributeError")

\* C9: initialize overwrites the weight of every layer, fc_out included, and
\* leaves every bias, every gradient slot, the number of layers, their
\* dimensions and the activation as they were, each time it is called.
C9_InitializeFrame ==
    [][last'.op = "initialize" =>
          /\ Len(layers') = Len(layers)
          /\ \A i \in 1..Len(layers) :
                /\ layers'[i].wver = layers[i].wver + 1
                /\ \E s \in 0..(RngPeriod - 1) :
                      layers'[i].w = Draw(layers[i].outF * layers[i].inF, s)
                /\ layers'[i].b = layers[i].b
                /\ layers'[i].bver = layers[i].bver
                /\ layers'[i].gw = layers[i].gw
                /\ layers'[i].gb = layers[i].gb
                /\ layers'[i].inF = layers[i].inF
                /\ layers'[i].outF = layers[i].outF
          /\ act' = act
          /\ pc' = pc
      ]_vars

\* initialize after a backward pass, on a network with fc_hid layers.
C9_Witness ==
    /\ pc = "ready" /\ last.op = "initialize" /\ bwd
    /\ Len(layers) = MaxDepth + 1
    /\ \A i \in 1..Len(layers) : layers[i].wver = 1 /\ ~layers[i].gw.none

ExtractOps == {"get_weights", "get_biases", "get_wb", "get_grads"}

\* C10 as stated: every vector an extraction call returns is detached from
\* gradient tracking, on the host, and owns its storage.
C10_Detached ==
    (pc = "ready" /\ last.op \in ExtractOps /\ Ok(ret)) =>
        (~ret.t.rg /\ ret.t.dev = "cpu" /\ ret.t.ref = NoRef)

\* What get_weights is to return: the layers' current weights in order.
CurrentWeights == Flatten([i \in 1..Len(layers) |-> layers[i].w])

\* C10, amended: every vector an extraction call returns is on the host, owns
\* its storage and is recomputed from the current tensors; no later call
\* changes a vector returned earlier; the call leaves parameters and gradient
\* slots as they were.  The vectors of get_weights, get_biases and get_wb
\* require grad (they are not detached); only get_grads' does not.
C10_HostCopy ==
    /\ [](/\ (pc = "ready" /\ last.op \in ExtractOps /\ Ok(ret)) =>
                /\ ret.t.dev = "cpu"
                /\ ret.t.ref = NoRef
                /\ ret.t.rg = (last.op # "get_grads")
          /\ (pc = "ready" /\ last.op = "get_weights") => (Ok(ret) /\ ret.t.val = CurrentWeights)
          /\ (pc = "ready" /\ Ok(ret)) => Content(layers, ret.t) = snap)
    /\ [][last'.op \in ExtractOps => (layers' = layers /\ rng' = rng /\ act' = act)]_vars

\* A vector returned by get_weights, get_biases or get_wb is still held after
\* a later initialize or optimizer step, and no longer what the call would
\* return now.
C10_Witness ==
    /\ pc = "ready" /\ Ok(ret)
    /\ Len(ret.t.shape) = 1 /\ ret.t.rg
    /\ dev = "cuda"
    /\ last.op \in {"initialize", "step"}
    /\ snap \notin {GetWeights(layers, dev).t.val, GetBiases(layers, dev).t.val,
                    GetWb(layers, dev).t.val}
====
